---- MODULE Spec2Model ----
(***************************************************************************)
(* TruStory "octopus" backend: the push worker's notification fan-out      *)
(* (services/push/process_transactions.go) and the truapi cookie session   *)
(* and REST handlers (truapi/cookies, truapi.go, handle_flag_story.go,     *)
(* invite and logout handlers), the CircleCI workflows and the             *)
(* invites_left database migration.                                        *)
(***************************************************************************)
EXTENDS Integers, Sequences, FiniteSets, TLC

VARIABLES
    inv,      \* per goroutine: the invocation of an event-processing function
    rcvd,     \* per goroutine: notifications the sender goroutine received from it
    rpc,      \* position of the sender goroutine: "recv" or "busy"
    now,      \* wall clock of the API server, in days
    config,   \* Config.Cookie.HashKey / EncryptKey of the API context
    jar,      \* the tru-user cookie held by the client
    resp,     \* the HTTP exchange just completed: request, calls made, response
    ci,       \* one run of a CircleCI workflow: branch, job states, artefacts
    db        \* the database of the test_migrations job

vars == <<inv, rcvd, rpc, now, config, jar, resp, ci, db>>
pushVars == <<inv, rcvd, rpc>>
webVars == <<now, config, jar, resp>>
opsVars == <<ci, db>>

(***************************************************************************)
(* Bounds                                                                  *)
(***************************************************************************)
MaxMentions == 2        \* addresses parsed out of one argument body
MaxParticipants == 2    \* participants of one claim
MaxPunish == 2          \* punishment results of one slash
ConcLen == 1            \* input lengths when two producers run concurrently

Addr == {"a1", "a2", "a3"}
ConcAddr == {"a1", "a2"}
Proc == {"p1", "p2"}

SeqsUpTo(S, n) == UNION {[1..k -> S] : k \in 0..n}
Range(s) == {s[i] : i \in 1..Len(s)}

(***************************************************************************)
(* services/push: notifications                                            *)
(***************************************************************************)
NoAddr == "nil"

Notification(from, to, type, msg) ==
    [From |-> from, To |-> to, Type |-> type, Msg |-> msg]

\* unique: order-preserving removal of repeated addresses
RECURSIVE unique(_)
unique(s) ==
    IF s = <<>> THEN <<>>
    ELSE LET front == unique(SubSeq(s, 1, Len(s) - 1))
             last == s[Len(s)]
         IN IF last \in Range(front) THEN front ELSE Append(front, last)

\* lines 38-54: one mention notification per entry of the de-duplicated list
MentionSends(creatorAddress, addresses) ==
    [i \in 1..Len(addresses) |->
        Notification(creatorAddress, addresses[i], "NotificationMentionAction",
                     "mentioned you")]

\* line 56: the guard of the claim-creator notification
NotifyClaimCreator(creatorAddress, claimCreator, notified) ==
    creatorAddress # claimCreator /\ creatorAddress \notin notified

\* lines 56-67: the notification to the claim creator, and the notified map after
ClaimCreatorSends(creatorAddress, claimCreator, notified) ==
    IF NotifyClaimCreator(creatorAddress, claimCreator, notified)
    THEN <<Notification(creatorAddress, claimCreator, "NotificationNewArgument",
                        "claim you created")>>
    ELSE <<>>

NotifiedAfterClaimCreator(creatorAddress, claimCreator, notified) ==
    IF NotifyClaimCreator(creatorAddress, claimCreator, notified)
    THEN notified \cup {creatorAddress}
    ELSE notified

\* lines 69-83: the loop over the participants, threading the notified map
RECURSIVE ParticipantSends(_, _, _)
ParticipantSends(creatorAddress, participants, notified) ==
    IF participants = <<>> THEN <<>>
    ELSE LET p == Head(participants)
         IN IF p \in notified
            THEN ParticipantSends(creatorAddress, Tail(participants), notified)
            ELSE <<Notification(creatorAddress, p, "NotificationNewArgument",
                                "claim you participated in")>>
                 \o ParticipantSends(creatorAddress, Tail(participants),
                                     notified \cup {p})

\* processArgumentCreated sending the mention notifications after the others
processArgumentCreatedMentionsLast(in) ==
    IF in.decodeErr \/ in.lookupErr THEN <<>>
    ELSE LET addresses == unique(in.mentions)
             notified1 == Range(addresses)
             notified2 == NotifiedAfterClaimCreator(in.creator, in.claimCreator,
                                                    notified1)
         IN ClaimCreatorSends(in.creator, in.claimCreator, notified1)
            \o ParticipantSends(in.creator, in.participants, notified2)
            \o MentionSends(in.creator, addresses)

\* processArgumentCreated going on after a failed participant lookup
processArgumentCreatedIgnoringLookupErr(in) ==
    IF in.decodeErr THEN <<>>
    ELSE LET addresses == unique(in.mentions)
             notified1 == Range(addresses)
             notified2 == NotifiedAfterClaimCreator(in.creator, in.claimCreator,
                                                    notified1)
         IN MentionSends(in.creator, addresses)
            \o ClaimCreatorSends(in.creator, in.claimCreator, notified1)
            \o ParticipantSends(in.creator, in.participants, notified2)

\* processArgumentCreated: the notifications it sends, in order
processArgumentCreated(in) ==
    IF in.decodeErr \/ in.lookupErr THEN <<>>
    ELSE LET addresses == unique(in.mentions)
             notified1 == Range(addresses)
             notified2 == NotifiedAfterClaimCreator(in.creator, in.claimCreator,
                                                    notified1)
         IN MentionSends(in.creator, addresses)
            \o ClaimCreatorSends(in.creator, in.claimCreator, notified1)
            \o ParticipantSends(in.creator, in.participants, notified2)

\* processUpvote: one notification to the creator of the argument
processUpvote(in) ==
    IF in.decodeErr \/ in.lookupErr THEN <<>>
    ELSE <<Notification(in.creator, in.argumentCreator,
                        "NotificationAgreeReceived", "agreed with your argument")>>

\* notifySlashes, lines 126-132: the set of slashed addresses
Slashed(punishResults) ==
    {punishResults[i].addr : i \in {j \in 1..Len(punishResults) :
        punishResults[j].type # "PunishmentCuratorRewarded"}}

\* the orders in which `for k := range slashed` may visit the map
MapOrders(S) == {o \in [1..Cardinality(S) -> S] : Range(o) = S}

\* lines 134-144
SlashedSends(order) ==
    [i \in 1..Len(order) |->
        Notification(NoAddr, order[i], "NotificationSlashed", "penalized")]

\* lines 146-169
RECURSIVE PunishSends(_)
PunishSends(punishResults) ==
    IF punishResults = <<>> THEN <<>>
    ELSE LET p == Head(punishResults)
         IN (IF p.type = "PunishmentCuratorRewarded"
             THEN <<Notification(NoAddr, p.addr, "NotificationEarnedStake", "earned")>>
             ELSE <<>>)
            \o (IF p.type = "PunishmentJailed"
                THEN <<Notification(NoAddr, p.addr, "NotificationJailed", "jailed")>>
                ELSE <<>>)
            \o PunishSends(Tail(punishResults))

notifySlashes(in) == SlashedSends(in.order) \o PunishSends(in.punishResults)

\* processTxEvent: the switch over the event's action is commented out; the
\* function prints a line and sends nothing
processTxEvent(in) == <<>>

Sends(kind, in) ==
    CASE kind = "processArgumentCreated" -> processArgumentCreated(in)
      [] kind = "processUpvote" -> processUpvote(in)
      [] kind = "notifySlashes" -> notifySlashes(in)
      [] kind = "processTxEvent" -> processTxEvent(in)

Idle == [pc |-> "idle", kind |-> "none", in |-> <<>>, plan |-> <<>>, idx |-> 0]

\* an invocation begins: it runs up to its first channel send, or to its return
Called(kind, in) ==
    LET plan == Sends(kind, in)
    IN [pc |-> IF plan = <<>> THEN "done" ELSE "send",
        kind |-> kind, in |-> in, plan |-> plan, idx |-> 0]

\* the invocation moves past its current send statement
Advance(p) ==
    LET i == inv[p].idx + 1
    IN [inv EXCEPT ![p].idx = i,
                   ![p].pc = IF i = Len(inv[p].plan) THEN "done" ELSE "send"]

\* a send in a select with a default branch: the notification is dropped when
\* the sender goroutine is not at its receive
ChanSendOrDrop(p) ==
    /\ inv[p].pc = "send"
    /\ inv' = Advance(p)
    /\ IF rpc = "recv"
       THEN /\ rcvd' = [rcvd EXCEPT ![p] = Append(@, inv[p].plan[inv[p].idx + 1])]
            /\ rpc' = "busy"
       ELSE UNCHANGED <<rcvd, rpc>>
    /\ UNCHANGED <<webVars, opsVars>>

\* a send with a timeout: the function gives up and returns when the sender
\* goroutine is not at its receive
ChanSendOrTimeout(p) ==
    /\ inv[p].pc = "send"
    /\ IF rpc = "recv"
       THEN /\ rcvd' = [rcvd EXCEPT ![p] = Append(@, inv[p].plan[inv[p].idx + 1])]
            /\ inv' = Advance(p)
            /\ rpc' = "busy"
       ELSE /\ inv' = [inv EXCEPT ![p].pc = "done"]
            /\ UNCHANGED <<rcvd, rpc>>
    /\ UNCHANGED <<webVars, opsVars>>

\* a send on a channel nobody ever receives from (a nil channel): it never
\* completes
ChanSendNilChannel(p) ==
    /\ inv[p].pc = "send"
    /\ FALSE
    /\ UNCHANGED vars

\* the blocking send `notifications <- n` on the unbuffered channel: it completes
\* only in a rendezvous with the sender goroutine's receive
ChanSend(p) ==
    /\ inv[p].pc = "send"
    /\ rpc = "recv"
    /\ rcvd' = [rcvd EXCEPT ![p] = Append(@, inv[p].plan[inv[p].idx + 1])]
    /\ inv' = Advance(p)
    /\ rpc' = "busy"
    /\ UNCHANGED <<webVars, opsVars>>

\* the sender goroutine finishes delivering a notification to the push gateway
\* and loops back to its receive
SenderLoop ==
    /\ rpc = "busy"
    /\ rpc' = "recv"
    /\ UNCHANGED <<inv, rcvd, webVars, opsVars>>

\* the event-processing function has returned to its caller
Return(p) ==
    /\ inv[p].pc = "done"
    /\ inv' = [inv EXCEPT ![p] = Idle]
    /\ rcvd' = [rcvd EXCEPT ![p] = <<>>]
    /\ UNCHANGED <<rpc, webVars, opsVars>>

ArgumentInputs(A, nm, np) ==
    {[decodeErr |-> FALSE, lookupErr |-> FALSE, creator |-> c, mentions |-> m,
      claimCreator |-> cc, participants |-> ps] :
        c \in A, m \in SeqsUpTo(A, nm), cc \in A, ps \in SeqsUpTo(A, np)}

ArgumentFailures ==
    {[decodeErr |-> de, lookupErr |-> ~de, creator |-> NoAddr, mentions |-> <<>>,
      claimCreator |-> NoAddr, participants |-> <<>>] : de \in BOOLEAN}

UpvoteInputs(A) ==
    {[decodeErr |-> FALSE, lookupErr |-> FALSE, creator |-> c,
      argumentCreator |-> ac] : c \in A, ac \in A}

UpvoteFailures ==
    {[decodeErr |-> de, lookupErr |-> ~de, creator |-> NoAddr,
      argumentCreator |-> NoAddr] : de \in BOOLEAN}

PunishmentTypes ==
    {"PunishmentCuratorRewarded", "PunishmentJailed", "PunishmentInterestSlashed"}

\* the argument decodes (creator and body are known) and the lookup of the claim
\* participants fails
ArgumentLookupFailures(A, nm) ==
    {[decodeErr |-> FALSE, lookupErr |-> TRUE, creator |-> c, mentions |-> m,
      claimCreator |-> NoAddr, participants |-> <<>>] :
        c \in A, m \in SeqsUpTo(A, nm)}

\* the stake decodes and the lookup of the argument fails
UpvoteLookupFailures(A) ==
    {[decodeErr |-> FALSE, lookupErr |-> TRUE, creator |-> c,
      argumentCreator |-> NoAddr] : c \in A}

StartArgumentCreated(p, A, nm, np) ==
    /\ inv[p].pc = "idle"
    /\ \E in \in ArgumentInputs(A, nm, np) \cup ArgumentFailures
                 \cup ArgumentLookupFailures(A, nm) :
          inv' = [inv EXCEPT ![p] = Called("processArgumentCreated", in)]
    /\ UNCHANGED <<rcvd, rpc, webVars, opsVars>>

StartUpvote(p, A) ==
    /\ inv[p].pc = "idle"
    /\ \E in \in UpvoteInputs(A) \cup UpvoteFailures \cup UpvoteLookupFailures(A) :
          inv' = [inv EXCEPT ![p] = Called("processUpvote", in)]
    /\ UNCHANGED <<rcvd, rpc, webVars, opsVars>>

StartNotifySlashes(p, A, n) ==
    /\ inv[p].pc = "idle"
    /\ \E pr \in SeqsUpTo([type : PunishmentTypes, addr : A], n) :
          \E o \in MapOrders(Slashed(pr)) :
             inv' = [inv EXCEPT ![p] =
                        Called("notifySlashes", [punishResults |-> pr, order |-> o])]
    /\ UNCHANGED <<rcvd, rpc, webVars, opsVars>>

\* the event's action tag and its data, handed to processTxEvent
TxEvents(A, nm, np) ==
    {[action |-> "create-argument", data |-> d] : d \in ArgumentInputs(A, nm, np)}
    \cup {[action |-> a, data |-> d] :
             a \in {"create-upvote", "send"}, d \in UpvoteInputs(A)}

StartTxEvent(p, A, nm, np) ==
    /\ inv[p].pc = "idle"
    /\ \E evt \in TxEvents(A, nm, np) :
          inv' = [inv EXCEPT ![p] = Called("processTxEvent", evt)]
    /\ UNCHANGED <<rcvd, rpc, webVars, opsVars>>

(***************************************************************************)
(* truapi/cookies: the tru-user login cookie                               *)
(***************************************************************************)
TickDays == 10          \* days the clock advances in one step
MaxTicks == 4           \* steps of the clock

AuthenticatedSessionDuration == 30   \* days
SecureCookieMaxAge == 30             \* days: the default of securecookie.New

UserCookieName == "tru-user"
AnonSessionCookieName == "tru-session"
AuthLogoutRedir == "Config.Web.AuthLogoutRedir"

NoErr == "nil"
NilUser == [ID |-> -1, Address |-> "nil", AuthenticatedAt |-> -1]

\* an address so long that the encoded cookie value exceeds securecookie's
\* maxLength of 4096 bytes
LongAddress == "a-long"

\* db.User rows; ID 0 is what a legacy cookie (keyed by TwitterProfileID) decodes to
Users == {[ID |-> 0, Address |-> "a1"], [ID |-> 1, Address |-> "a1"],
          [ID |-> 2, Address |-> "a2"], [ID |-> 3, Address |-> LongAddress]}

\* cookie values as the client holds them
NoValue == [kind |-> "absent"]       \* the request has no cookie of that name
EmptyValue == [kind |-> "empty"]     \* Value: ""
GarbageValue == [kind |-> "garbage"] \* a value that is no securecookie encoding

\* the encoded value is longer than the codec's maxLength
TooLong(value) == "Address" \in DOMAIN value /\ value.Address = LongAddress

\* a securecookie value: the name and the time of encoding are authenticated
\* along with the serialized value, under the keys it was sealed with
Sealed(key, name, value, t) ==
    [kind |-> "sealed", name |-> name, key |-> key, ts |-> t, val |-> value]

\* getSecureCookieInstance: the hex decoding of the two configured keys;
\* securecookie.New takes any decoded keys and keeps the error of keys it cannot
\* use (an encryption key that is not 16, 24 or 32 bytes) inside the codec
getSecureCookieInstance(cfg) ==
    IF cfg = "not-hex" THEN [codec |-> "nil", err |-> "hex.InvalidByteError"]
    ELSE [codec |-> cfg, err |-> NoErr]

\* the error a codec carries from securecookie.New
CodecErr(codec) ==
    IF codec = "hex-3-bytes" THEN "crypto/aes: invalid key size 3" ELSE NoErr

\* securecookie Encode: the error of the codec, then serialization, encryption,
\* MAC over name and timestamp, and the length check
Encode(codec, name, value, t) ==
    IF CodecErr(codec) # NoErr THEN [value |-> NoValue, err |-> CodecErr(codec)]
    ELSE IF TooLong(value)
    THEN [value |-> NoValue, err |-> "securecookie: the value is too long"]
    ELSE [value |-> Sealed(codec, name, value, t), err |-> NoErr]

\* securecookie Decode: the error of the codec, then the MAC under the codec's
\* keys over name and timestamp, the age check against maxAge, and
\* deserialization
Decode(codec, name, value, t) ==
    IF CodecErr(codec) # NoErr THEN [val |-> NilUser, err |-> CodecErr(codec)]
    ELSE IF /\ value.kind = "sealed"
            /\ value.name = name
            /\ value.key = codec
            /\ ~(value.ts < t - SecureCookieMaxAge)
    THEN [val |-> value.val, err |-> NoErr]
    ELSE [val |-> NilUser, err |-> "securecookie: the value is not valid"]

\* isStale with the comparison against the anonymous-session duration
isStaleYear(user, t) == user.AuthenticatedAt < t - 365

\* isStale: the authentication time lies before now minus the session duration
isStale(user, t) == user.AuthenticatedAt < t - AuthenticatedSessionDuration

GetAuthenticatedUser(cfg, cookie, t) ==
    IF cookie = NoValue
    THEN [user |-> NilUser, err |-> "http: named cookie not present"]
    ELSE LET s == getSecureCookieInstance(cfg)
         IN IF s.err # NoErr THEN [user |-> NilUser, err |-> s.err]
            ELSE LET d == Decode(s.codec, UserCookieName, cookie, t)
                 IN IF d.err # NoErr THEN [user |-> NilUser, err |-> d.err]
                    ELSE IF d.val.ID = 0
                    THEN [user |-> NilUser, err |-> "Legacy twitter auth cookie found"]
                    ELSE IF isStale(d.val, t)
                    THEN [user |-> NilUser, err |-> "Stale cookie found"]
                    ELSE [user |-> d.val, err |-> NoErr]

\* MakeLoginCookieValue encoding the cookie under the anonymous-session name
MakeLoginCookieValueWrongName(cfg, user, t) ==
    LET s == getSecureCookieInstance(cfg)
    IN IF s.err # NoErr THEN [value |-> NoValue, err |-> s.err]
       ELSE Encode(s.codec, AnonSessionCookieName,
                   [ID |-> user.ID, Address |-> user.Address,
                    AuthenticatedAt |-> t], t)

MakeLoginCookieValue(cfg, user, t) ==
    LET s == getSecureCookieInstance(cfg)
    IN IF s.err # NoErr THEN [value |-> NoValue, err |-> s.err]
       ELSE Encode(s.codec, UserCookieName,
                   [ID |-> user.ID, Address |-> user.Address,
                    AuthenticatedAt |-> t], t)

NoCookie == [Name |-> "none", Value |-> NoValue, Expires |-> -1, MaxAge |-> 0]

GetLoginCookie(cfg, user, t) ==
    LET v == MakeLoginCookieValue(cfg, user, t)
    IN IF v.err # NoErr THEN [cookie |-> NoCookie, err |-> v.err]
       ELSE [cookie |-> [Name |-> UserCookieName, Value |-> v.value,
                         Expires |-> t + AuthenticatedSessionDuration, MaxAge |-> 0],
             err |-> NoErr]

GetLogoutCookie(t) ==
    [Name |-> UserCookieName, Value |-> EmptyValue, Expires |-> t, MaxAge |-> 0]

\* SessionDuration: 24h * 365, in days
SessionDuration == 365

\* GetAnonymousSession: the tru-session cookie of the request, decoded and not
\* older than SessionDuration
GetAnonymousSession(cfg, cookie, t) ==
    IF cookie = NoValue
    THEN [err |-> "http: named cookie not present"]
    ELSE LET s == getSecureCookieInstance(cfg)
         IN IF s.err # NoErr THEN [err |-> s.err]
            ELSE LET d == Decode(s.codec, AnonSessionCookieName, cookie, t)
                 IN IF d.err # NoErr THEN [err |-> d.err]
                    ELSE IF t > d.val.CreationTime + SessionDuration
                    THEN [err |-> "stale cookie found"]
                    ELSE [err |-> NoErr]

MakeAnonymousCookieValue(cfg, uuid, t) ==
    LET s == getSecureCookieInstance(cfg)
    IN IF s.err # NoErr THEN [value |-> NoValue, err |-> s.err]
       ELSE Encode(s.codec, AnonSessionCookieName,
                   [SessionID |-> uuid, CreationTime |-> t], t)

\* what uuid.NewV4 returns: an identifier, or the error of the random source
NewV4Results == {[id |-> "u1", err |-> NoErr], [id |-> "", err |-> "uuid: no entropy"]}

GetAnonSessionCookie(cfg, u2, t) ==
    IF u2.err # NoErr THEN [cookie |-> NoCookie, err |-> u2.err]
    ELSE LET v == MakeAnonymousCookieValue(cfg, u2.id, t)
         IN IF v.err # NoErr THEN [cookie |-> NoCookie, err |-> v.err]
            ELSE [cookie |-> [Name |-> AnonSessionCookieName, Value |-> v.value,
                              Expires |-> t + SessionDuration, MaxAge |-> 0],
                  err |-> NoErr]

\* the cookie a mobile request is answered with: no value, MaxAge -1
MobileSessionCookie ==
    [Name |-> AnonSessionCookieName, Value |-> EmptyValue, Expires |-> -1, MaxAge |-> -1]

\* AnonymousSessionHandler returning without serving when no cookie can be made
AnonymousSessionHandlerAbort(cfg, mobile, cookie, u2, t) ==
    IF mobile = "true" THEN [setCookies |-> <<MobileSessionCookie>>, next |-> 1]
    ELSE IF GetAnonymousSession(cfg, cookie, t).err = NoErr
    THEN [setCookies |-> <<>>, next |-> 1]
    ELSE LET c == GetAnonSessionCookie(cfg, u2, t)
         IN IF c.err # NoErr THEN [setCookies |-> <<>>, next |-> 0]
            ELSE [setCookies |-> <<c.cookie>>, next |-> 1]

\* AnonymousSessionHandler tracking mobile requests like every other request
AnonymousSessionHandlerTrackMobile(cfg, mobile, cookie, u2, t) ==
    IF GetAnonymousSession(cfg, cookie, t).err = NoErr
    THEN [setCookies |-> IF mobile = "true" THEN <<MobileSessionCookie>> ELSE <<>>,
          next |-> 1]
    ELSE LET c == GetAnonSessionCookie(cfg, u2, t)
         IN IF c.err # NoErr
            THEN [setCookies |-> IF mobile = "true" THEN <<MobileSessionCookie>>
                                 ELSE <<>>,
                  next |-> 1]
            ELSE [setCookies |-> <<c.cookie>>, next |-> 1]

\* AnonymousSessionHandler: the cookies it sets on the response and the number of
\* times it calls next.ServeHTTP; mobile is the value of the x-mobile-request
\* header, cookie the tru-session cookie of the request, u2 what uuid.NewV4 gives
AnonymousSessionHandler(cfg, mobile, cookie, u2, t) ==
    IF mobile = "true" THEN [setCookies |-> <<MobileSessionCookie>>, next |-> 1]
    ELSE IF GetAnonymousSession(cfg, cookie, t).err = NoErr
    THEN [setCookies |-> <<>>, next |-> 1]
    ELSE LET c == GetAnonSessionCookie(cfg, u2, t)
         IN IF c.err # NoErr THEN [setCookies |-> <<>>, next |-> 1]
            ELSE [setCookies |-> <<c.cookie>>, next |-> 1]

(***************************************************************************)
(* truapi: middleware and handlers                                         *)
(***************************************************************************)
BadJSON == [decodes |-> FALSE, story_id |-> 0, email |-> ""]
FlagStoryBodies == {BadJSON} \cup
    {[decodes |-> TRUE, story_id |-> n, email |-> ""] : n \in {1, 2}}
Emails == {"Bob@X.io", "bob@x.io", "bob-at-x"}
InviteBodies == {BadJSON} \cup
    {[decodes |-> TRUE, story_id |-> 0, email |-> e] : e \in Emails}

\* strings.ToLower on the addresses the model sends
ToLower(e) == IF e = "Bob@X.io" THEN "bob@x.io" ELSE e

\* regex.RegexValidEmail.MatchString
RegexValidEmail(e) == e \in {"Bob@X.io", "bob@x.io"}

\* WithUser rejecting the request that carries no authenticated user
WithUserRejecting(cfg, cookie, t) ==
    LET auth == GetAuthenticatedUser(cfg, cookie, t)
    IN IF auth.err # NoErr THEN <<>> ELSE <<auth.user>>

\* WithUser: the request contexts with which it calls the wrapped handler, each
\* given by the user stored under userContextKey (NilUser: no value stored)
WithUser(cfg, cookie, t) ==
    LET auth == GetAuthenticatedUser(cfg, cookie, t)
    IN IF auth.err # NoErr THEN <<NilUser>> ELSE <<auth.user>>

\* HandleFlagStory answering before it looks at the user in the context
HandleFlagStoryNoAuth(body, user, upsertErr) ==
    IF ~body.decodes THEN [status |-> 400, upserts |-> <<>>]
    ELSE LET flaggedStory == [StoryID |-> body.story_id, Creator |-> user.Address]
         IN IF upsertErr THEN [status |-> 400, upserts |-> <<flaggedStory>>]
            ELSE [status |-> 200, upserts |-> <<flaggedStory>>]

\* HandleFlagStory writing the row before it looks at the user in the context
HandleFlagStoryWriteFirst(body, user, upsertErr) ==
    IF ~body.decodes THEN [status |-> 400, upserts |-> <<>>]
    ELSE LET flaggedStory == [StoryID |-> body.story_id, Creator |-> user.Address]
         IN IF user = NilUser THEN [status |-> 401, upserts |-> <<flaggedStory>>]
            ELSE IF upsertErr THEN [status |-> 400, upserts |-> <<flaggedStory>>]
            ELSE [status |-> 200, upserts |-> <<flaggedStory>>]

\* HandleFlagStory answering 500 when the upsert fails
HandleFlagStory500(body, user, upsertErr) ==
    IF ~body.decodes THEN [status |-> 400, upserts |-> <<>>]
    ELSE IF user = NilUser THEN [status |-> 401, upserts |-> <<>>]
    ELSE LET flaggedStory == [StoryID |-> body.story_id, Creator |-> user.Address]
         IN IF upsertErr THEN [status |-> 500, upserts |-> <<flaggedStory>>]
            ELSE [status |-> 200, upserts |-> <<flaggedStory>>]

\* HandleFlagStory: the status and the rows passed to UpsertFlaggedStory
HandleFlagStory(body, user, upsertErr) ==
    IF ~body.decodes THEN [status |-> 400, upserts |-> <<>>]
    ELSE IF user = NilUser THEN [status |-> 401, upserts |-> <<>>]
    ELSE LET flaggedStory == [StoryID |-> body.story_id, Creator |-> user.Address]
         IN IF upsertErr THEN [status |-> 400, upserts |-> <<flaggedStory>>]
            ELSE [status |-> 200, upserts |-> <<flaggedStory>>]

AddInviteOutcomes == {"error", "already-invited", "created"}
\* request methods a client uses on /api/v1/invite
Methods == {"POST", "GET"}

\* whether json.Marshal of the invite fails: it is called only on an invite
\* that AddInvite has stored
MarshalOutcomes(outcome) == IF outcome = "created" THEN BOOLEAN ELSE {FALSE}

\* handleCreateInvite looking at the user before it validates the email
handleCreateInviteAuthFirst(body, user, outcome, marshalErr) ==
    IF ~body.decodes THEN [status |-> 400, invites |-> <<>>, bodyRead |-> TRUE]
    ELSE LET email == ToLower(body.email)
         IN IF user = NilUser THEN [status |-> 401, invites |-> <<>>, bodyRead |-> TRUE]
            ELSE IF ~RegexValidEmail(email)
                 THEN [status |-> 422, invites |-> <<>>, bodyRead |-> TRUE]
            ELSE LET invite == [Creator |-> user.Address, FriendEmail |-> email]
                 IN [status |-> CASE outcome = "error" -> 500
                                  [] outcome = "already-invited" -> 422
                                  [] outcome = "created" ->
                                       IF marshalErr THEN 500 ELSE 200,
                     invites |-> <<invite>>, bodyRead |-> TRUE]

\* handleCreateInvite: the status, the invites passed to AddInvite, and whether
\* the request body was read; outcome is what AddInvite does, marshalErr whether
\* json.Marshal of the stored invite fails
handleCreateInvite(body, user, outcome, marshalErr) ==
    IF ~body.decodes THEN [status |-> 400, invites |-> <<>>, bodyRead |-> TRUE]
    ELSE LET email == ToLower(body.email)
         IN IF ~RegexValidEmail(email)
            THEN [status |-> 422, invites |-> <<>>, bodyRead |-> TRUE]
            ELSE IF user = NilUser
                 THEN [status |-> 401, invites |-> <<>>, bodyRead |-> TRUE]
            ELSE LET invite == [Creator |-> user.Address, FriendEmail |-> email]
                 IN [status |-> CASE outcome = "error" -> 500
                                  [] outcome = "already-invited" -> 422
                                  [] outcome = "created" ->
                                       IF marshalErr THEN 500 ELSE 200,
                     invites |-> <<invite>>, bodyRead |-> TRUE]

\* HandleInvite passing every method on to handleCreateInvite
HandleInviteAnyMethod(method, body, user, outcome, marshalErr) ==
    handleCreateInvite(body, user, outcome, marshalErr)

\* HandleInvite: POST creates an invite, every other method is not found
HandleInvite(method, body, user, outcome, marshalErr) ==
    IF method = "POST" THEN handleCreateInvite(body, user, outcome, marshalErr)
    ELSE [status |-> 404, invites |-> <<>>, bodyRead |-> FALSE]

\* Logout that redirects without overriding the cookie
LogoutNoCookie(t) ==
    [status |-> 302, location |-> AuthLogoutRedir, setCookie |-> NoCookie]

\* Logout: the cookie it sets and the redirect it answers with
Logout(t) ==
    [status |-> 302, location |-> AuthLogoutRedir, setCookie |-> GetLogoutCookie(t)]

(***************************************************************************)
(* truapi: the catch-all route of the web application                      *)
(***************************************************************************)
\* a URL path is the sequence of its elements and an element the sequence of
\* its parts between dots: /static/app.js is <<<<"static">>, <<"app", "js">>>>
\* path.Base: the last element of the path, "/" for the root path
Base(urlPath) == IF urlPath = <<>> THEN <<"/">> ELSE urlPath[Len(urlPath)]

\* filepath.Ext: the suffix of the element that starts at its last dot, empty
\* when the element has no dot
Ext(element) ==
    IF Len(element) <= 1 THEN <<>> ELSE <<".", element[Len(element)]>>

WebDirectories == {"Web.Directory", "Web.DirectoryV2"}

\* r.Cookie("web_version"): nil or a cookie with a value
NoWebVersion == [present |-> FALSE, Value |-> ""]
WebVersionCookies ==
    {NoWebVersion} \cup {[present |-> TRUE, Value |-> v] : v \in {"", "1", "2"}}

\* the web route serving static files from Web.Directory whatever the cookie
ServeWebStaticV1(urlPath, webVersionCookie, readable, absErr, writeErr) ==
    LET v2 == webVersionCookie.present /\ webVersionCookie.Value = "2"
        webDirectory == IF v2 THEN "Web.DirectoryV2" ELSE "Web.Directory"
    IN IF Ext(Base(urlPath)) = <<>>
       THEN IF absErr \/ ~readable[webDirectory]
            THEN [serves |-> "error", dir |-> webDirectory, status |-> 404]
            ELSE IF writeErr
            THEN [serves |-> "error", dir |-> webDirectory, status |-> 500]
            ELSE [serves |-> "index", dir |-> webDirectory, status |-> 200]
       ELSE [serves |-> "static", dir |-> "Web.Directory", status |-> 0]

\* the handler registered on PathPrefix("/"): what it serves (the compiled
\* index.html, a file through the file server, or an error), from which
\* directory, and the status it sets (0: left to the file server)
ServeWeb(urlPath, webVersionCookie, readable, absErr, writeErr) ==
    LET v2 == webVersionCookie.present /\ webVersionCookie.Value = "2"
        webDirectory == IF v2 THEN "Web.DirectoryV2" ELSE "Web.Directory"
    IN IF Ext(Base(urlPath)) = <<>>
       THEN IF absErr \/ ~readable[webDirectory]
            THEN [serves |-> "error", dir |-> webDirectory, status |-> 404]
            ELSE IF writeErr
            THEN [serves |-> "error", dir |-> webDirectory, status |-> 500]
            ELSE [serves |-> "index", dir |-> webDirectory, status |-> 200]
       ELSE IF v2 THEN [serves |-> "static", dir |-> "Web.DirectoryV2", status |-> 0]
            ELSE [serves |-> "static", dir |-> "Web.Directory", status |-> 0]

NoResp == [route |-> "none"]
\* the client's cookie: its value, who set it, and for a login cookie the user it
\* was issued to and the day of issue
NoJar == [value |-> NoValue, origin |-> "none", user |-> NilUser, at |-> 0]

\* time passes
Tick ==
    /\ now < TickDays * MaxTicks
    /\ now' = now + TickDays
    /\ resp' = NoResp
    /\ UNCHANGED <<config, jar, pushVars, opsVars>>

TimePoints == {k * TickDays : k \in 0..MaxTicks}

\* cookie values a client may present on day t: none, empty, garbage, cookies
\* sealed under the server's keys at any earlier time for any user, and cookies
\* sealed under other keys or under the anonymous-session name
ClientCookieValues(t) ==
    {NoValue, EmptyValue, GarbageValue}
    \cup {Sealed("hex-32-bytes", UserCookieName,
                 [ID |-> u.ID, Address |-> u.Address, AuthenticatedAt |-> at], ts) :
             u \in {x \in Users : ~TooLong(x)},
             at \in {x \in TimePoints : x <= t},
             ts \in {x \in TimePoints : x <= t}}
    \cup {Sealed(kn[1], kn[2],
                 [ID |-> 1, Address |-> "a1", AuthenticatedAt |-> t], t) :
             kn \in {<<"other-32-bytes", UserCookieName>>, <<"hex-32-bytes", AnonSessionCookieName>>}}

\* the client presents a tru-user cookie of its own making
ClientSetCookie ==
    /\ \E v \in ClientCookieValues(now) :
          jar' = [value |-> v, origin |-> "client", user |-> NilUser, at |-> now]
    /\ resp' = NoResp
    /\ UNCHANGED <<now, config, pushVars, opsVars>>

\* a session is issued: the login cookie is set and the client stores it
Login ==
    /\ \E u \in Users :
          LET c == GetLoginCookie(config, u, now)
          IN /\ resp' = [route |-> "login", err |-> c.err, setCookie |-> c.cookie]
             /\ jar' = IF c.err # NoErr THEN jar
                       ELSE [value |-> c.cookie.Value, origin |-> "login", user |-> u,
                             at |-> now]
    /\ UNCHANGED <<now, config, pushVars, opsVars>>

\* GET /auth-logout; the client replaces its cookie by the one the answer sets
AuthLogout ==
    /\ LET r == Logout(now)
       IN /\ resp' = [route |-> "auth-logout", cookie |-> jar, status |-> r.status,
                      location |-> r.location, setCookie |-> r.setCookie]
          /\ jar' = IF r.setCookie = NoCookie THEN jar
                    ELSE [value |-> r.setCookie.Value, origin |-> "logout",
                          user |-> NilUser, at |-> now]
    /\ UNCHANGED <<now, config, pushVars, opsVars>>

\* /api/v1/flagStory: WithUser(apiCtx, WrapHandler(ta.HandleFlagStory))
FlagStory ==
    /\ \E body \in FlagStoryBodies : \E upsertErr \in BOOLEAN :
          LET served == WithUser(config, jar.value, now)
              out == [i \in 1..Len(served) |->
                         HandleFlagStory(body, served[i], upsertErr)]
          IN resp' = [route |-> "flagStory", method |-> "POST", cookie |-> jar,
                      body |-> body, dbErr |-> upsertErr,
                      auth |-> GetAuthenticatedUser(config, jar.value, now),
                      served |-> served,
                      status |-> IF out = <<>> THEN 0 ELSE out[Len(out)].status,
                      dbCalls |-> IF out = <<>> THEN <<>> ELSE out[Len(out)].upserts]
    /\ UNCHANGED <<now, config, jar, pushVars, opsVars>>

\* /api/v1/invite: WithUser(apiCtx, WrapHandler(ta.HandleInvite))
Invite ==
    /\ \E method \in Methods : \E body \in InviteBodies :
       \E outcome \in AddInviteOutcomes :
       \E marshalErr \in MarshalOutcomes(outcome) :
          LET served == WithUser(config, jar.value, now)
              out == [i \in 1..Len(served) |->
                         HandleInvite(method, body, served[i], outcome, marshalErr)]
          IN resp' = [route |-> "invite", method |-> method, cookie |-> jar,
                      body |-> body, dbErr |-> (outcome = "error"),
                      outcome |-> outcome, marshalErr |-> marshalErr,
                      auth |-> GetAuthenticatedUser(config, jar.value, now),
                      served |-> served,
                      status |-> IF out = <<>> THEN 0 ELSE out[Len(out)].status,
                      dbCalls |-> IF out = <<>> THEN <<>> ELSE out[Len(out)].invites,
                      bodyRead |-> IF out = <<>> THEN FALSE
                                   ELSE out[Len(out)].bodyRead]
    /\ UNCHANGED <<now, config, jar, pushVars, opsVars>>

\* values of the x-mobile-request header: not sent, "true", anything else
MobileHeaders == {"", "true", "false"}

\* tru-session cookies a client may present on day t: none, empty, garbage,
\* sessions sealed under the server's keys at an earlier time, with a creation
\* time equal to the time of sealing or at the edge of SessionDuration, and a
\* session sealed under other keys or under the login cookie's name
SessionCookieValues(t) ==
    {NoValue, EmptyValue, GarbageValue}
    \cup UNION {{Sealed("hex-32-bytes", AnonSessionCookieName,
                        [SessionID |-> "u0", CreationTime |-> ct], ts) :
                    ct \in {ts, t - SessionDuration, t - SessionDuration - 1}} :
                ts \in {x \in TimePoints : x <= t}}
    \cup {Sealed(kn[1], kn[2], [SessionID |-> "u0", CreationTime |-> t], t) :
             kn \in {<<"other-32-bytes", AnonSessionCookieName>>, <<"hex-32-bytes", UserCookieName>>}}

\* a request passes the AnonymousSessionHandler middleware
AnonSession ==
    /\ \E mobile \in MobileHeaders : \E v \in SessionCookieValues(now) :
       \E u2 \in NewV4Results :
          LET out == AnonymousSessionHandler(config, mobile, v, u2, now)
          IN resp' = [route |-> "anonSession", mobile |-> mobile, cookie |-> v,
                      newV4 |-> u2, setCookies |-> out.setCookies,
                      next |-> out.next]
    /\ UNCHANGED <<now, config, jar, pushVars, opsVars>>

\* request paths: /, /claim/1, /static/app.js, /v1.2/claims, /favicon.ico,
\* /file. and /.well-known
WebPaths ==
    {<<>>,
     <<<<"claim">>, <<"1">>>>,
     <<<<"static">>, <<"app", "js">>>>,
     <<<<"v1", "2">>, <<"claims">>>>,
     <<<<"favicon", "ico">>>>,
     <<<<"file", "">>>>,
     <<<<"", "well-known">>>>}

\* a request reaches the catch-all route; readable tells for each directory
\* whether its index.html can be read
WebRequest ==
    /\ \E urlPath \in WebPaths : \E c \in WebVersionCookies :
       \E readable \in [WebDirectories -> BOOLEAN] :
       \E absErr \in BOOLEAN : \E writeErr \in BOOLEAN :
          LET out == ServeWeb(urlPath, c, readable, absErr, writeErr)
          IN resp' = [route |-> "web", path |-> urlPath, webVersion |-> c,
                      readable |-> readable, absErr |-> absErr,
                      writeErr |-> writeErr, serves |-> out.serves,
                      dir |-> out.dir, status |-> out.status]
    /\ UNCHANGED <<now, config, jar, pushVars, opsVars>>

(***************************************************************************)
(* services/db/migrations: the invites_left migration                      *)
(***************************************************************************)
\* a schema is the set of the columns of its tables
Column(table, column, type, default) ==
    [table |-> table, column |-> column, type |-> type, default |-> default]

\* ALTER TABLE t ADD COLUMN c: an error when the table does not exist or has
\* the column already
AddColumn(schema, c) ==
    IF \/ ~\E x \in schema : x.table = c.table
       \/ \E x \in schema : x.table = c.table /\ x.column = c.column
    THEN [schema |-> schema, err |-> TRUE]
    ELSE [schema |-> schema \cup {c}, err |-> FALSE]

\* ALTER TABLE t DROP COLUMN c: an error when the table has no such column
DropColumn(schema, table, column) ==
    IF ~\E x \in schema : x.table = table /\ x.column = column
    THEN [schema |-> schema, err |-> TRUE]
    ELSE [schema |-> {x \in schema : ~(x.table = table /\ x.column = column)},
          err |-> FALSE]

\* the up step registered by init()
InvitesLeftUp(schema) ==
    AddColumn(schema, Column("users", "invites_left", "INTEGER", "0"))

\* a down step that reports success and leaves the column in place
InvitesLeftDownKeepsColumn(schema) == [schema |-> schema, err |-> FALSE]

\* the down step registered by init()
InvitesLeftDown(schema) == DropColumn(schema, "users", "invites_left")

\* the migration that creates the users table stands for the migrations
\* registered before this one
CreateUsersUp(schema) ==
    IF \E x \in schema : x.table = "users" THEN [schema |-> schema, err |-> TRUE]
    ELSE [schema |-> schema \cup {Column("users", "id", "BIGSERIAL", "none")},
          err |-> FALSE]

CreateUsersDown(schema) ==
    IF ~\E x \in schema : x.table = "users" THEN [schema |-> schema, err |-> TRUE]
    ELSE [schema |-> {x \in schema : x.table # "users"}, err |-> FALSE]

\* the registered migrations in the order of their versions
Migrations == <<"create_users", "invites_left">>

Up(name, schema) ==
    IF name = "invites_left" THEN InvitesLeftUp(schema) ELSE CreateUsersUp(schema)

Down(name, schema) ==
    IF name = "invites_left" THEN InvitesLeftDown(schema)
    ELSE CreateUsersDown(schema)

\* the database of the postgres container: nothing in it, no migrations table
FreshDb == [schema |-> {}, version |-> 0, init |-> FALSE, pc |-> 0]

\* the commands of the Test Migrations step
TestMigrationsCommands ==
    <<"db_init", "db_version", "db_migrate", "db_reset", "db_version", "db_migrate",
      "db_version">>

\* one transaction of a command on database d: db_init creates the migrations
\* table, db_version reads it, db_migrate runs the up step of the next pending
\* migration, db_reset the down step of the last applied one; a command is over
\* (pc moves on) when it has nothing left to run
Exec(cmd, d) ==
    CASE cmd = "db_init" ->
           [db |-> [d EXCEPT !.init = TRUE, !.pc = @ + 1], err |-> d.init]
      [] cmd = "db_version" ->
           [db |-> [d EXCEPT !.pc = @ + 1], err |-> ~d.init]
      [] cmd = "db_migrate" ->
           IF ~d.init THEN [db |-> d, err |-> TRUE]
           ELSE IF d.version = Len(Migrations)
           THEN [db |-> [d EXCEPT !.pc = @ + 1], err |-> FALSE]
           ELSE LET r == Up(Migrations[d.version + 1], d.schema)
                IN IF r.err THEN [db |-> d, err |-> TRUE]
                   ELSE [db |-> [d EXCEPT !.schema = r.schema,
                                          !.version = @ + 1],
                         err |-> FALSE]
      [] cmd = "db_reset" ->
           IF ~d.init THEN [db |-> d, err |-> TRUE]
           ELSE IF d.version = 0
           THEN [db |-> [d EXCEPT !.pc = @ + 1], err |-> FALSE]
           ELSE LET r == Down(Migrations[d.version], d.schema)
                IN IF r.err THEN [db |-> d, err |-> TRUE]
                   ELSE [db |-> [d EXCEPT !.schema = r.schema,
                                          !.version = @ - 1],
                         err |-> FALSE]

\* a whole run of the migrate command: every pending up step, in order
RECURSIVE Migrate(_)
Migrate(d) ==
    IF d.version = Len(Migrations) THEN d
    ELSE LET r == Up(Migrations[d.version + 1], d.schema)
         IN IF r.err THEN d
            ELSE Migrate([d EXCEPT !.schema = r.schema, !.version = @ + 1])

(***************************************************************************)
(* .circleci/config.yml: jobs and workflows                                *)
(***************************************************************************)
Branches == {"master", "develop", "feature"}
Jobs == {"build", "test_migrations", "db_dump", "s3_upload", "migrate", "deploy"}

Job(name, requires, only) == [name |-> name, requires |-> requires, only |-> only]

\* build-workflow with a deploy that waits for the build only
BuildWorkflowDeployAfterBuild ==
    [trigger |-> "push", only |-> Branches,
     jobs |-> {Job("build", {}, Branches),
               Job("test_migrations", {}, Branches),
               Job("db_dump", {}, {"master"}),
               Job("s3_upload", {"db_dump"}, {"master"}),
               Job("migrate", {"test_migrations"}, {"master", "develop"}),
               Job("deploy", {"build"}, {"master", "develop"})}]

\* workflows.build-workflow: runs for every pushed commit
BuildWorkflow ==
    [trigger |-> "push", only |-> Branches,
     jobs |-> {Job("build", {}, Branches),
               Job("test_migrations", {}, Branches),
               Job("db_dump", {}, {"master"}),
               Job("s3_upload", {"db_dump"}, {"master"}),
               Job("migrate", {"test_migrations"}, {"master", "develop"}),
               Job("deploy", {"build", "test_migrations", "migrate"},
                   {"master", "develop"})}]

\* nightly-backup with an upload that waits for nothing
NightlyBackupUnordered ==
    [trigger |-> "schedule", only |-> {"master"},
     jobs |-> {Job("db_dump", {}, Branches), Job("s3_upload", {}, Branches)}]

\* workflows.nightly-backup: scheduled, on master
NightlyBackup ==
    [trigger |-> "schedule", only |-> {"master"},
     jobs |-> {Job("db_dump", {}, Branches),
               Job("s3_upload", {"db_dump"}, Branches)}]

Workflows ==
    [w \in {"build-workflow", "nightly-backup"} |->
        IF w = "build-workflow" THEN BuildWorkflow ELSE NightlyBackup]

InWorkflow(w, j) == \E e \in Workflows[w].jobs : e.name = j
JobEntry(w, j) == CHOOSE e \in Workflows[w].jobs : e.name = j

\* the jobs a job waits for, directly or through other jobs
RECURSIVE Ancestors(_, _)
Ancestors(w, j) ==
    LET r == JobEntry(w, j).requires
    IN r \cup UNION {Ancestors(w, a) : a \in r}

\* file paths are sequences of names
WorkingDirectory == <<"tmp", "octopus">>

\* persist_to_workspace of a job: the paths relative to its root
Persisted(j) ==
    CASE j = "build" -> {<<"pushd">>, <<"spotlightd">>, <<"truapid">>}
      [] j = "db_dump" -> {<<"dump.sql.gz">>}
      [] OTHER -> {}

\* attach_workspace of a job: the directory the workspace is unpacked at
AttachAt(j) ==
    CASE j = "deploy" -> <<"tmp", "octopus", "bin">>
      [] j = "s3_upload" -> <<"tmp", "octopus", "db">>
      [] OTHER -> <<>>

\* the files a job finds after attach_workspace: the layers of the jobs upstream
Attached(run, j) ==
    IF AttachAt(j) = <<>> THEN {}
    ELSE {[path |-> AttachAt(j) \o f.path, by |-> f.by] :
             f \in UNION {run.layers[a] : a \in Ancestors(run.workflow, j)}}

\* the host the Deploy and Migrate DB scripts act on
Host(branch) ==
    CASE branch = "master" -> "beta"
      [] branch = "develop" -> "devnet"
      [] OTHER -> "none"

Cmd(c, a) == [cmd |-> c, arg |-> a]

\* the commands of the Deploy script for a host, in order; the script has no
\* branch for any other branch
DeployScript(host) ==
    IF host = "none" THEN <<>>
    ELSE <<Cmd("mkdir", "~/.ssh"),
           Cmd("ssh-keyscan", host),
           Cmd("ssh", "systemctl stop truapid.service"),
           Cmd("scp", "truapid"),
           Cmd("ssh", "setcap truapid"),
           Cmd("ssh", "systemctl start truapid.service"),
           Cmd("scp", "pushd"),
           Cmd("ssh", "docker-compose up pushd"),
           Cmd("scp", "spotlightd"),
           Cmd("ssh", "docker-compose up spotlightd"),
           Cmd("echo", host)>>

IsScp(c) == c.cmd = "scp"

\* the binaries the Deploy script copies, in order
DeployOrder ==
    LET scps == SelectSeq(DeployScript("beta"), IsScp)
    IN [i \in 1..Len(scps) |-> scps[i].arg]

IdleCI ==
    [workflow |-> "none", branch |-> "none",
     status |-> [j \in Jobs |-> "waiting"],
     layers |-> [j \in Jobs |-> {}],
     uploads |-> {}, deployed |-> {}, migrated |-> {},
     dpc |-> 1, remote |-> <<>>]

\* a push or the cron schedule starts a workflow on a branch its trigger allows
Trigger ==
    /\ ci.workflow = "none"
    /\ \E w \in DOMAIN Workflows : \E b \in Workflows[w].only :
          ci' = [ci EXCEPT !.workflow = w, !.branch = b]
    /\ UNCHANGED <<db, pushVars, webVars>>

\* a job starts when the branch passes its filter and the jobs it requires
\* have succeeded
StartJob ==
    /\ ci.workflow # "none"
    /\ \E j \in Jobs :
          /\ InWorkflow(ci.workflow, j)
          /\ ci.status[j] = "waiting"
          /\ ci.branch \in JobEntry(ci.workflow, j).only
          /\ \A r \in JobEntry(ci.workflow, j).requires : ci.status[r] = "success"
          /\ ci' = [ci EXCEPT !.status[j] = "running"]
          /\ db' = IF j = "test_migrations" THEN [FreshDb EXCEPT !.pc = 1] ELSE db
    /\ UNCHANGED <<pushVars, webVars>>

\* a step of a running job fails
JobFails ==
    /\ \E j \in Jobs :
          /\ ci.status[j] = "running"
          /\ ci' = [ci EXCEPT !.status[j] = "failed"]
    /\ UNCHANGED <<db, pushVars, webVars>>

\* build, db_dump and migrate run through: the job persists its paths to the
\* workspace; migrate has migrated the database of the branch's host
JobSucceeds ==
    /\ \E j \in {"build", "db_dump", "migrate"} :
          /\ ci.status[j] = "running"
          /\ ci' = [ci EXCEPT !.status[j] = "success",
                              !.layers[j] = {[path |-> f, by |-> j] : f \in Persisted(j)},
                              !.migrated = IF j = "migrate" /\ Host(ci.branch) # "none"
                                           THEN @ \cup {Host(ci.branch)} ELSE @]
    /\ UNCHANGED <<db, pushVars, webVars>>

\* s3_upload: aws s3 cp ./db/dump.sql.gz, which needs the file to be there
S3Upload ==
    /\ ci.status["s3_upload"] = "running"
    /\ \E f \in Attached(ci, "s3_upload") :
          /\ f.path = WorkingDirectory \o <<"db", "dump.sql.gz">>
          /\ ci' = [ci EXCEPT !.status["s3_upload"] = "success",
                              !.uploads = @ \cup {f}]
    /\ UNCHANGED <<db, pushVars, webVars>>

\* deploy: the next command of the Deploy script. The shell stops at the first
\* command that fails (JobFails, or an scp of a file that is not there); scp
\* puts a binary on the host of the branch, ssh runs a command there; the step
\* succeeds when the script has run through
Deploy ==
    /\ ci.status["deploy"] = "running"
    /\ LET host == Host(ci.branch)
           script == DeployScript(host)
       IN IF ci.dpc > Len(script)
          THEN ci' = [ci EXCEPT !.status["deploy"] = "success"]
          ELSE LET c == script[ci.dpc]
                   bin == {f \in Attached(ci, "deploy") :
                              f.path = WorkingDirectory \o <<"bin", c.arg>>}
               IN IF c.cmd = "scp" /\ bin = {}
                  THEN ci' = [ci EXCEPT !.status["deploy"] = "failed"]
                  ELSE ci' = [ci EXCEPT
                                 !.dpc = @ + 1,
                                 !.deployed =
                                     IF c.cmd = "scp"
                                     THEN @ \cup {[host |-> host, file |-> f] : f \in bin}
                                     ELSE @,
                                 !.remote =
                                     IF c.cmd = "ssh"
                                     THEN Append(@, [host |-> host, command |-> c.arg])
                                     ELSE @]
    /\ UNCHANGED <<db, pushVars, webVars>>

\* test_migrations: the next transaction of the Test Migrations step
TestMigrationsStep ==
    /\ ci.status["test_migrations"] = "running"
    /\ db.pc \in 1..Len(TestMigrationsCommands)
    /\ LET r == Exec(TestMigrationsCommands[db.pc], db)
       IN /\ db' = r.db
          /\ ci' = [ci EXCEPT !.status["test_migrations"] =
                        IF r.err THEN "failed"
                        ELSE IF r.db.pc > Len(TestMigrationsCommands) THEN "success"
                        ELSE @]
    /\ UNCHANGED <<pushVars, webVars>>

InitPush ==
    /\ inv = [p \in Proc |-> Idle]
    /\ rcvd = [p \in Proc |-> <<>>]
    /\ rpc = "recv"

InitWeb ==
    /\ now = 0
    /\ config = "hex-32-bytes"
    /\ jar = NoJar
    /\ resp = NoResp

InitOps ==
    /\ ci = IdleCI
    /\ db = FreshDb

Init == InitPush /\ InitWeb /\ InitOps

\* pushd with one event-processing goroutine
Next ==
    \/ StartArgumentCreated("p1", Addr, MaxMentions, MaxParticipants)
    \/ StartUpvote("p1", Addr)
    \/ StartNotifySlashes("p1", Addr, MaxPunish)
    \/ StartTxEvent("p1", Addr, MaxMentions, MaxParticipants)
    \/ ChanSend("p1")
    \/ SenderLoop
    \/ Return("p1")

Spec == Init /\ [][Next]_vars

\* several producers on the one channel
NextConc ==
    \/ \E p \in Proc :
        \/ StartArgumentCreated(p, ConcAddr, ConcLen, ConcLen)
        \/ StartUpvote(p, ConcAddr)
        \/ StartNotifySlashes(p, ConcAddr, ConcLen)
        \/ ChanSend(p)
        \/ Return(p)
    \/ SenderLoop

SpecConc == Init /\ [][NextConc]_vars

\* pushd while the sender goroutine keeps receiving: it always gets back to its
\* receive, and a function blocked at a send is served when the receive is ready
SpecLive ==
    /\ Init
    /\ [][Next]_vars
    /\ WF_vars(SenderLoop)
    /\ WF_vars(ChanSend("p1"))

\* the same with several producers: the runtime queues the blocked senders of a
\* channel first in, first out, so none of them is passed over for ever
SpecConcLive ==
    /\ Init
    /\ [][NextConc]_vars
    /\ WF_vars(SenderLoop)
    /\ \A p \in Proc : SF_vars(ChanSend(p))

\* truapi serving one client; the cookie keys of the configuration may be
\* well-formed hex or not
InitApi ==
    /\ InitPush
    /\ now = 0
    /\ config \in {"hex-32-bytes", "hex-3-bytes", "not-hex"}
    /\ jar = NoJar
    /\ resp = NoResp
    /\ InitOps

NextApi ==
    \/ Tick
    \/ ClientSetCookie
    \/ Login
    \/ AuthLogout
    \/ FlagStory
    \/ Invite

SpecApi == InitApi /\ [][NextApi]_vars

\* truapi serving the requests that need no login: the anonymous-session
\* middleware and the web application
NextSite ==
    \/ Tick
    \/ AnonSession
    \/ WebRequest

SpecSite == InitApi /\ [][NextSite]_vars

\* one run of a CircleCI workflow
NextCI ==
    \/ Trigger
    \/ StartJob
    \/ JobFails
    \/ JobSucceeds
    \/ S3Upload
    \/ Deploy
    \/ TestMigrationsStep

SpecCI == Init /\ [][NextCI]_vars

(***************************************************************************)
(* Properties                                                              *)
(***************************************************************************)
UserRoutes == {"flagStory", "invite"}

\* C1 (as claimed): for one argument-created event no recipient address is sent
\* more than one notification.
C1_AtMostOnePerRecipient ==
    \A p \in Proc :
        inv[p].kind = "processArgumentCreated" =>
            \A i, j \in 1..Len(rcvd[p]) :
                i # j => rcvd[p][i].To # rcvd[p][j].To

\* C2 (as claimed): once processTxEvent has returned for a create-argument
\* (create-upvote) event, every notification processArgumentCreated
\* (processUpvote) produces for the event data has gone over the channel.
C2_TxEventDispatches ==
    \A p \in Proc :
        (inv[p].kind = "processTxEvent" /\ inv[p].pc = "done") =>
            /\ inv[p].in.action = "create-argument" =>
                  rcvd[p] = processArgumentCreated(inv[p].in.data)
            /\ inv[p].in.action = "create-upvote" =>
                  rcvd[p] = processUpvote(inv[p].in.data)

\* C3: what the sender goroutine has received from a producer is exactly the
\* notifications that producer has moved past, once each and in the order of
\* sending; a producer that has returned has had all of them received.
C3_ReceivedOnceInOrder ==
    \A p \in Proc :
        /\ rcvd[p] = SubSeq(inv[p].plan, 1, inv[p].idx)
        /\ inv[p].pc = "done" => rcvd[p] = inv[p].plan

C3_Witness ==
    \E p, q \in Proc :
        /\ p # q
        /\ inv[p].pc = "done" /\ Len(rcvd[p]) >= 2
        /\ inv[q].pc = "send" /\ Len(rcvd[q]) >= 1

\* C4: in a step in which the sender goroutine receives nothing, a producer
\* blocked at a send stays blocked at that send: it neither returns nor moves on
\* to its next notification.
C4_BlockedWhileNotReceived ==
    [][\A p \in Proc :
          (inv[p].pc = "send" /\ rcvd' = rcvd) => inv'[p] = inv[p]]_vars

C4_Witness ==
    \E p \in Proc : inv[p].pc = "send" /\ inv[p].idx = 0 /\ rpc = "busy"

\* C5: WithUser calls the wrapped handler exactly once; the context it passes
\* holds a user exactly when GetAuthenticatedUser succeeded, and then that user;
\* a missing, undecodable, legacy or stale cookie is passed down without a user.
C5_WithUserServesOnce ==
    resp.route \in UserRoutes =>
        LET v == resp.cookie.value
            a == GetAuthenticatedUser(config, v, now)
        IN /\ Len(resp.served) = 1
           /\ resp.served[1] # NilUser <=> a.err = NoErr
           /\ a.err = NoErr => resp.served[1] = a.user
           /\ (\/ v.kind \in {"absent", "empty", "garbage"}
               \/ v.val.ID = 0
               \/ v.val.AuthenticatedAt + AuthenticatedSessionDuration < now)
                  => resp.served = <<NilUser>>

C5_Witness ==
    /\ resp.route \in UserRoutes
    /\ resp.served # <<>>
    /\ resp.served[1] # NilUser

\* C6: GetAuthenticatedUser returns a user and no error exactly when the cookie
\* is present, decodes as a tru-user cookie under the configured keys, has an ID
\* other than 0 and was authenticated at most 30 days ago; otherwise it returns
\* no user and an error.
C6_AuthIffValidCookie ==
    resp.route \in UserRoutes =>
        LET v == resp.cookie.value
            a == resp.auth
            valid == /\ config \notin {"not-hex", "hex-3-bytes"}
                     /\ v.kind = "sealed"
                     /\ v.name = UserCookieName
                     /\ v.key = config
                     /\ now - v.ts <= SecureCookieMaxAge
                     /\ v.val.ID # 0
                     /\ now - v.val.AuthenticatedAt <= AuthenticatedSessionDuration
        IN /\ a.err = NoErr <=> valid
           /\ valid => a.user = v.val
           /\ ~valid => a.user = NilUser

C6_Witness ==
    /\ resp.route \in UserRoutes
    /\ resp.cookie.value.kind = "sealed"
    /\ resp.cookie.value.ts = now
    /\ resp.cookie.value.val.ID # 0
    /\ now - resp.cookie.value.val.AuthenticatedAt > AuthenticatedSessionDuration
    /\ resp.auth.err = "Stale cookie found"

\* C7: the cookie issued at login, presented under the same keys within 30 days,
\* yields the ID and the Address of the user it was issued to when that ID is
\* not 0, and is rejected when it is 0.
C7_LoginRoundTrip ==
    (/\ resp.route \in UserRoutes
     /\ resp.cookie.origin = "login"
     /\ now - resp.cookie.at <= AuthenticatedSessionDuration) =>
        IF resp.cookie.user.ID # 0
        THEN /\ resp.auth.err = NoErr
             /\ resp.auth.user.ID = resp.cookie.user.ID
             /\ resp.auth.user.Address = resp.cookie.user.Address
        ELSE resp.auth.err # NoErr /\ resp.auth.user = NilUser

C7_Witness ==
    /\ resp.route \in UserRoutes
    /\ resp.cookie.origin = "login"
    /\ resp.cookie.user.ID # 0
    /\ now > resp.cookie.at
    /\ resp.auth.err = NoErr

\* C8: Logout answers 302 to Web.AuthLogoutRedir and sets a tru-user cookie with
\* an empty value expiring at once, whatever cookie the request carried; a
\* request made with the cookie so replaced fails GetAuthenticatedUser and is
\* served without a user.
C8_LogoutDeletesSession ==
    /\ resp.route = "auth-logout" =>
          /\ resp.status = 302
          /\ resp.location = AuthLogoutRedir
          /\ resp.setCookie = [Name |-> UserCookieName, Value |-> EmptyValue,
                               Expires |-> now, MaxAge |-> 0]
          /\ jar.origin = "logout" /\ jar.value = EmptyValue
    /\ (resp.route \in UserRoutes /\ resp.cookie.origin = "logout") =>
          /\ resp.auth.err # NoErr
          /\ resp.served = <<NilUser>>

C8_Witness ==
    /\ resp.route \in UserRoutes
    /\ resp.cookie.origin = "logout"
    /\ resp.body.decodes
    /\ resp.status = 401

\* C9 (as claimed): a request without an authenticated user in its context is
\* answered 401 by HandleFlagStory and by HandleInvite on POST.
C9_NoUserIs401 ==
    (/\ resp.route \in UserRoutes
     /\ resp.method = "POST"
     /\ resp.served = <<NilUser>>) => resp.status = 401

\* C9 (amended): such a request is answered 401 provided its body decodes and,
\* for HandleInvite, the lower-cased email is a valid address.
C9_NoUserIs401AfterBodyChecks ==
    (/\ resp.route \in UserRoutes
     /\ resp.method = "POST"
     /\ resp.served = <<NilUser>>
     /\ resp.body.decodes
     /\ resp.route = "invite" => RegexValidEmail(ToLower(resp.body.email)))
        => resp.status = 401

C9_Witness ==
    /\ resp.route = "invite"
    /\ resp.method = "POST"
    /\ resp.served = <<NilUser>>
    /\ resp.body.decodes
    /\ resp.status = 401

\* C10: HandleFlagStory answers 200 exactly when the body decodes, the context
\* holds a user and the upsert succeeds; 400 on a decode error, then 401 when
\* there is no user, then 400 when the upsert fails.
C10_FlagStoryStatus ==
    resp.route = "flagStory" =>
        LET decodes == resp.body.decodes
            user == resp.served[1] # NilUser
        IN /\ resp.status = 200 <=> (decodes /\ user /\ ~resp.dbErr)
           /\ ~decodes => resp.status = 400
           /\ (decodes /\ ~user) => resp.status = 401
           /\ (decodes /\ user /\ resp.dbErr) => resp.status = 400

C10_Witness ==
    /\ resp.route = "flagStory"
    /\ resp.body.decodes
    /\ resp.served # <<>>
    /\ resp.served[1] # NilUser
    /\ resp.dbErr
    /\ resp.status = 400

\* C11: HandleFlagStory calls UpsertFlaggedStory at most once for a request, never
\* when the body does not decode or the context has no user, only for a request
\* that GetAuthenticatedUser accepts, and always with the address of the user in
\* the request context as Creator and the story_id of the body as StoryID.
C11_FlagStoryWritesOnlyAuthenticated ==
    resp.route = "flagStory" =>
        /\ Len(resp.dbCalls) <= 1
        /\ ~resp.body.decodes => resp.dbCalls = <<>>
        /\ resp.status \in {400, 401} /\ ~resp.dbErr => resp.dbCalls = <<>>
        /\ \A i \in 1..Len(resp.served) :
              resp.served[i] = NilUser => resp.dbCalls = <<>>
        /\ resp.dbCalls # <<>> =>
              /\ resp.auth.err = NoErr
              /\ resp.dbCalls[1].Creator = resp.auth.user.Address
              /\ resp.dbCalls[1].Creator = resp.served[1].Address
              /\ resp.dbCalls[1].Creator # NilUser.Address
              /\ resp.dbCalls[1].StoryID = resp.body.story_id

\* a logged-in client flagged a story and the row was written for its address
C11_Witness ==
    /\ resp.route = "flagStory"
    /\ resp.cookie.origin = "login"
    /\ resp.status = 200
    /\ Len(resp.dbCalls) = 1
    /\ resp.dbCalls[1] = [StoryID |-> resp.body.story_id,
                          Creator |-> resp.cookie.user.Address]

\* C12 as stated: handleCreateInvite answers the first failing check in the
\* order body decode (400), validity of the lower-cased email (422),
\* authenticated user (401), AddInvite error (500), invite already present (422),
\* and 200 otherwise; AddInvite is called only when the first three checks pass,
\* and with the lower-cased email as FriendEmail.
C12_CreateInviteOrder ==
    resp.route = "invite" /\ resp.method = "POST" /\ resp.served # <<>> =>
        LET bodyOk == resp.body.decodes
            emailOk == bodyOk /\ RegexValidEmail(ToLower(resp.body.email))
            userOk == emailOk /\ resp.served[1] # NilUser
        IN /\ resp.status =
                 IF ~bodyOk THEN 400
                 ELSE IF ~emailOk THEN 422
                 ELSE IF ~userOk THEN 401
                 ELSE IF resp.outcome = "error" THEN 500
                 ELSE IF resp.outcome = "already-invited" THEN 422
                 ELSE 200
           /\ resp.dbCalls # <<>> <=> userOk
           /\ Len(resp.dbCalls) <= 1
           /\ resp.dbCalls # <<>> =>
                 /\ resp.dbCalls[1].FriendEmail = ToLower(resp.body.email)
                 /\ resp.dbCalls[1].Creator = resp.served[1].Address

\* C12: the same order of checks, with one more failure after them: when
\* AddInvite has stored the invite and json.Marshal of it fails the answer is
\* 500, and 200 otherwise.
C12_CreateInviteOrderThenMarshal ==
    resp.route = "invite" /\ resp.method = "POST" /\ resp.served # <<>> =>
        LET bodyOk == resp.body.decodes
            emailOk == bodyOk /\ RegexValidEmail(ToLower(resp.body.email))
            userOk == emailOk /\ resp.served[1] # NilUser
        IN /\ resp.status =
                 IF ~bodyOk THEN 400
                 ELSE IF ~emailOk THEN 422
                 ELSE IF ~userOk THEN 401
                 ELSE IF resp.outcome = "error" THEN 500
                 ELSE IF resp.outcome = "already-invited" THEN 422
                 ELSE IF resp.marshalErr THEN 500
                 ELSE 200
           /\ resp.dbCalls # <<>> <=> userOk
           /\ Len(resp.dbCalls) <= 1
           /\ resp.dbCalls # <<>> =>
                 /\ resp.dbCalls[1].FriendEmail = ToLower(resp.body.email)
                 /\ resp.dbCalls[1].Creator = resp.served[1].Address

\* an invite for an email written in upper case was stored in lower case, and
\* the answer is 500 because the stored invite could not be encoded
C12_Witness ==
    /\ resp.route = "invite"
    /\ resp.method = "POST"
    /\ resp.outcome = "created"
    /\ resp.marshalErr
    /\ resp.status = 500
    /\ resp.body.email = "Bob@X.io"
    /\ Len(resp.dbCalls) = 1
    /\ resp.dbCalls[1].FriendEmail = "bob@x.io"

\* C13: HandleInvite answers every request whose method is not POST with 404, and
\* for such a request the body is not read and AddInvite is not called.
C13_InviteNotPostIs404 ==
    resp.route = "invite" /\ resp.method # "POST" /\ resp.served # <<>> =>
        /\ resp.status = 404
        /\ ~resp.bodyRead
        /\ resp.dbCalls = <<>>

\* a logged-in client sent a well-formed invite with GET and got 404
C13_Witness ==
    /\ resp.route = "invite"
    /\ resp.method = "GET"
    /\ resp.cookie.origin = "login"
    /\ resp.auth.err = NoErr
    /\ resp.body.decodes
    /\ RegexValidEmail(ToLower(resp.body.email))
    /\ resp.outcome = "created"
    /\ resp.status = 404

\* C14: AnonymousSessionHandler calls the next handler exactly once for every
\* request: a mobile request, a request with a valid session cookie, one with a
\* missing, undecodable or stale cookie, and one for which no new cookie can be
\* created.
C14_AnonSessionServesOnce ==
    resp.route = "anonSession" => resp.next = 1

\* no session cookie came with the request and none could be created, because
\* uuid.NewV4 failed or the cookie keys are not hex; the request was served
C14_Witness ==
    /\ resp.route = "anonSession"
    /\ resp.mobile # "true"
    /\ GetAnonymousSession(config, resp.cookie, now).err # NoErr
    /\ resp.newV4.err # NoErr
    /\ resp.setCookies = <<>>
    /\ resp.next = 1

\* the Set-Cookie headers of the response that carry a new session
NewSessionCookies ==
    {i \in 1..Len(resp.setCookies) :
        /\ resp.setCookies[i].Name = AnonSessionCookieName
        /\ resp.setCookies[i].Value.kind = "sealed"}

\* C15 as stated: a new tru-session cookie is issued exactly when the request is
\* not a mobile request, GetAnonymousSession fails and the cookie can be created;
\* every request with a valid session gets no Set-Cookie; a mobile request gets
\* the tru-session cookie with MaxAge -1 and never a new session.
C15_ValidSessionNoSetCookie ==
    resp.route = "anonSession" =>
        LET mobile == resp.mobile = "true"
            valid == GetAnonymousSession(config, resp.cookie, now).err = NoErr
            creatable == resp.newV4.err = NoErr /\ config \notin {"not-hex", "hex-3-bytes"}
        IN /\ NewSessionCookies # {} <=> ~mobile /\ ~valid /\ creatable
           /\ valid => resp.setCookies = <<>>
           /\ mobile =>
                 /\ \E i \in 1..Len(resp.setCookies) :
                       /\ resp.setCookies[i].Name = AnonSessionCookieName
                       /\ resp.setCookies[i].MaxAge = -1
                 /\ NewSessionCookies = {}

\* C15: a new tru-session cookie is issued exactly when the request is not a
\* mobile request, GetAnonymousSession fails and the cookie can be created; a
\* request that is not a mobile request and has a valid session gets no
\* Set-Cookie; a mobile request gets exactly the tru-session cookie with MaxAge -1
\* and no value, whatever session it carries.
C15_NewSessionIff ==
    resp.route = "anonSession" =>
        LET mobile == resp.mobile = "true"
            valid == GetAnonymousSession(config, resp.cookie, now).err = NoErr
            creatable == resp.newV4.err = NoErr /\ config \notin {"not-hex", "hex-3-bytes"}
        IN /\ NewSessionCookies # {} <=> ~mobile /\ ~valid /\ creatable
           /\ ~mobile /\ valid => resp.setCookies = <<>>
           /\ mobile =>
                 /\ Len(resp.setCookies) = 1
                 /\ resp.setCookies[1].Name = AnonSessionCookieName
                 /\ resp.setCookies[1].MaxAge = -1
                 /\ resp.setCookies[1].Value = EmptyValue
           /\ Len(resp.setCookies) <= 1

\* a mobile request that carries a valid session is answered with the deleting
\* cookie
C15_Witness ==
    /\ resp.route = "anonSession"
    /\ resp.mobile = "true"
    /\ GetAnonymousSession(config, resp.cookie, now).err = NoErr
    /\ resp.setCookies = <<MobileSessionCookie>>

\* C16: the catch-all web route serves the compiled index.html when the last
\* element of the request path has no extension and hands the request to the
\* file server otherwise; the directory is Web.DirectoryV2 exactly when the
\* request has a web_version cookie with value "2" and Web.Directory otherwise;
\* an index.html that cannot be read is answered 404.
C16_WebRoute ==
    resp.route = "web" =>
        LET last == IF resp.path = <<>> THEN <<"/">> ELSE resp.path[Len(resp.path)]
            hasExt == Len(last) > 1
            v2 == resp.webVersion.present /\ resp.webVersion.Value = "2"
        IN /\ resp.dir = "Web.DirectoryV2" <=> v2
           /\ resp.dir = "Web.Directory" <=> ~v2
           /\ hasExt <=> resp.serves = "static"
           /\ ~hasExt /\ ~resp.readable[resp.dir] =>
                 resp.serves = "error" /\ resp.status = 404
           /\ ~hasExt /\ resp.readable[resp.dir] /\ ~resp.absErr /\ ~resp.writeErr =>
                 resp.serves = "index" /\ resp.status = 200

\* with the cookie web_version=2, /static/app.js was served from Web.DirectoryV2
\* although the index.html of that directory cannot be read
C16_Witness ==
    /\ resp.route = "web"
    /\ resp.path = <<<<"static">>, <<"app", "js">>>>
    /\ resp.webVersion = [present |-> TRUE, Value |-> "2"]
    /\ ~resp.readable["Web.DirectoryV2"]
    /\ resp.serves = "static"
    /\ resp.dir = "Web.DirectoryV2"

\* C17: deploy has started only if build, test_migrations and migrate have
\* succeeded, migrate only if test_migrations has succeeded, both only on master
\* or develop, and every binary on a host was persisted by the build of this run,
\* whose build and test_migrations succeeded.
C17_DeployAfterBuildTestMigrate ==
    /\ ci.status["deploy"] # "waiting" =>
          /\ ci.workflow = "build-workflow"
          /\ \A j \in {"build", "test_migrations", "migrate"} :
                ci.status[j] = "success"
    /\ ci.status["migrate"] # "waiting" =>
          /\ ci.workflow = "build-workflow"
          /\ ci.status["test_migrations"] = "success"
    /\ ci.status["deploy"] # "waiting" \/ ci.status["migrate"] # "waiting" =>
          ci.branch \in {"master", "develop"}
    /\ \A d \in ci.deployed :
          /\ ci.status["build"] = "success"
          /\ ci.status["test_migrations"] = "success"
          /\ d.file \in {[path |-> WorkingDirectory \o <<"bin">> \o f.path, by |-> "build"] :
                            f \in ci.layers["build"]}

\* a commit on master was built, tested, migrated and its three binaries were
\* deployed to the beta host
C17_Witness ==
    /\ ci.workflow = "build-workflow"
    /\ ci.branch = "master"
    /\ ci.status["deploy"] = "success"
    /\ Cardinality(ci.deployed) = Len(DeployOrder)
    /\ \A d \in ci.deployed : d.host = "beta"
    /\ Len(ci.remote) = 5
    /\ ci.remote[5] = [host |-> "beta", command |-> "docker-compose up spotlightd"]

\* C18: in both workflows s3_upload has started only if db_dump has succeeded,
\* what it uploads is the dump.sql.gz that db_dump persisted in this run, and
\* db_dump and s3_upload run on the master branch only.
C18_UploadAfterDump ==
    /\ ci.status["s3_upload"] # "waiting" => ci.status["db_dump"] = "success"
    /\ ci.status["s3_upload"] = "success" => ci.uploads # {}
    /\ \A u \in ci.uploads :
          /\ u.by = "db_dump"
          /\ \E f \in ci.layers["db_dump"] :
                u.path = WorkingDirectory \o <<"db">> \o f.path
    /\ ci.status["db_dump"] # "waiting" \/ ci.status["s3_upload"] # "waiting" =>
          ci.branch = "master"

\* the nightly backup uploaded the dump of its db_dump job
C18_Witness ==
    /\ ci.workflow = "nightly-backup"
    /\ ci.status["db_dump"] = "success"
    /\ ci.status["s3_upload"] = "success"
    /\ ci.uploads # {}

\* C19: the down step of the invites_left migration undoes its up step, so the
\* schema of the test database is always the one that belongs to its version,
\* and the commands migrate, reset, migrate of test_migrations end in the schema
\* and version of a single migrate, with users.invites_left INTEGER DEFAULT 0.
C19_MigrationRoundTrip ==
    LET created == CreateUsersUp({}).schema
        column == Column("users", "invites_left", "INTEGER", "0")
        once == Migrate([FreshDb EXCEPT !.init = TRUE])
    IN /\ db.version = 0 => db.schema = {}
       /\ db.version = 1 => db.schema = created
       /\ db.version = 2 =>
             /\ db.schema = created \cup {column}
             /\ InvitesLeftDown(db.schema) = [schema |-> created, err |-> FALSE]
             /\ InvitesLeftUp(InvitesLeftDown(db.schema).schema) =
                   [schema |-> db.schema, err |-> FALSE]
       /\ ci.status["test_migrations"] = "success" =>
             /\ db.schema = once.schema
             /\ db.version = once.version
             /\ column \in db.schema

\* the second migrate of test_migrations has run after the reset and the job
\* has succeeded
C19_Witness ==
    /\ ci.status["test_migrations"] = "success"
    /\ db.pc > Len(TestMigrationsCommands)
    /\ db.version = Len(Migrations)
    /\ Column("users", "invites_left", "INTEGER", "0") \in db.schema

\* C20 as stated: in processArgumentCreated the mentions come first: the sender
\* goroutine receives no NotificationMentionAction after a NotificationNewArgument
\* of the same event, mention notifications go to mentioned addresses only, no
\* address gets two of them, and once a NotificationNewArgument has been received
\* or the function is done every distinct mentioned address has got exactly one.
C20_MentionsFirst ==
    \A p \in Proc :
        inv[p].kind = "processArgumentCreated" =>
            LET r == rcvd[p]
                mention(i) == r[i].Type = "NotificationMentionAction"
                mentionsTo(a) == {i \in 1..Len(r) : mention(i) /\ r[i].To = a}
                mentioned == Range(inv[p].in.mentions)
            IN /\ \A i, j \in 1..Len(r) : i < j /\ mention(j) => mention(i)
               /\ \A i \in 1..Len(r) : mention(i) => r[i].To \in mentioned
               /\ \A a \in mentioned : Cardinality(mentionsTo(a)) <= 1
               /\ (inv[p].pc = "done" \/ \E i \in 1..Len(r) : ~mention(i)) =>
                     \A a \in mentioned : Cardinality(mentionsTo(a)) = 1

\* C20: the same, for an invocation whose argument decodes and whose lookup of
\* the claim participants succeeds; the lookup comes before the mentions are
\* parsed, and when it fails no mentioned address is notified.
C20_MentionsFirstAfterLookup ==
    \A p \in Proc :
        inv[p].kind = "processArgumentCreated" =>
            LET r == rcvd[p]
                mention(i) == r[i].Type = "NotificationMentionAction"
                mentionsTo(a) == {i \in 1..Len(r) : mention(i) /\ r[i].To = a}
                mentioned == Range(inv[p].in.mentions)
                looked == ~inv[p].in.decodeErr /\ ~inv[p].in.lookupErr
            IN /\ \A i, j \in 1..Len(r) : i < j /\ mention(j) => mention(i)
               /\ \A i \in 1..Len(r) : mention(i) => r[i].To \in mentioned
               /\ \A a \in mentioned : Cardinality(mentionsTo(a)) <= 1
               /\ (looked /\ (inv[p].pc = "done" \/ \E i \in 1..Len(r) : ~mention(i))) =>
                     \A a \in mentioned : Cardinality(mentionsTo(a)) = 1
               /\ ~looked => \A a \in mentioned : mentionsTo(a) = {}

\* an argument that mentions the same address twice: the address got one mention
\* notification, and a NotificationNewArgument was received after it
C20_Witness ==
    \E p \in Proc :
        /\ inv[p].kind = "processArgumentCreated"
        /\ inv[p].pc = "done"
        /\ Len(inv[p].in.mentions) = 2
        /\ inv[p].in.mentions[1] = inv[p].in.mentions[2]
        /\ Len(rcvd[p]) >= 2
        /\ rcvd[p][1].Type = "NotificationMentionAction"
        /\ rcvd[p][2].Type = "NotificationNewArgument"

\* C21: an invocation of processArgumentCreated or processUpvote whose payload
\* does not decode or whose lookup fails has nothing to send: it is never at a
\* send statement, the sender goroutine receives nothing from it, and it has
\* returned without a second attempt.
C21_FailureSendsNothing ==
    \A p \in Proc :
        (/\ inv[p].kind \in {"processArgumentCreated", "processUpvote"}
         /\ (inv[p].in.decodeErr \/ inv[p].in.lookupErr)) =>
            /\ inv[p].pc = "done"
            /\ inv[p].plan = <<>>
            /\ inv[p].idx = 0
            /\ rcvd[p] = <<>>

\* the argument decoded, its body mentions an address, the lookup of the claim
\* participants failed, and the function has returned with nothing received
C21_Witness ==
    \E p \in Proc :
        /\ inv[p].kind = "processArgumentCreated"
        /\ ~inv[p].in.decodeErr
        /\ inv[p].in.lookupErr
        /\ inv[p].in.mentions # <<>>
        /\ inv[p].pc = "done"
        /\ rcvd[p] = <<>>

\* C22: while the sender goroutine keeps receiving, every invocation that is at
\* a send statement goes on to its return, and the notifications it sends and
\* the sender goroutine receives from it number at most the distinct mentions
\* plus the participants plus one for processArgumentCreated, one for
\* processUpvote, and the punishment results plus the distinct punished
\* addresses for notifySlashes.
C22_TerminatesWithinBound ==
    /\ [](\A p \in Proc :
            LET in == inv[p].in
                bound ==
                    CASE inv[p].kind = "processArgumentCreated" ->
                           IF in.decodeErr \/ in.lookupErr THEN 0
                           ELSE Cardinality(Range(in.mentions))
                                + Len(in.participants) + 1
                      [] inv[p].kind = "processUpvote" -> 1
                      [] inv[p].kind = "notifySlashes" ->
                           Len(in.punishResults)
                           + Cardinality({in.punishResults[i].addr :
                                             i \in 1..Len(in.punishResults)})
                      [] OTHER -> 0
            IN /\ Len(inv[p].plan) <= bound
               /\ inv[p].idx <= Len(inv[p].plan)
               /\ Len(rcvd[p]) <= inv[p].idx)
    /\ \A p \in Proc : (inv[p].pc = "send") ~> (inv[p].pc = "done")

\* processArgumentCreated has returned after as many sends as the bound allows:
\* one mention, the claim creator and a participant
C22_Witness ==
    \E p \in Proc :
        /\ inv[p].kind = "processArgumentCreated"
        /\ inv[p].pc = "done"
        /\ inv[p].in.mentions # <<>>
        /\ inv[p].in.participants # <<>>
        /\ Len(rcvd[p]) = Cardinality(Range(inv[p].in.mentions))
                          + Len(inv[p].in.participants) + 1

====
